---- MODULE Spec2Model ----
(***************************************************************************)
(* A model of pysnips.ml.eventlogger.EventLogger: one logger instance,     *)
(* used by several producer threads and by its own flushing daemon thread; *)
(* and of NullEventLogger, of the tag scopes and of the default loggers of *)
(* the threads.                                                            *)
(*                                                                         *)
(* Strings (tags, tag scope names) are sequences of one-character strings. *)
(* A serialized event (the result of ...asRecordByteArray()) is one        *)
(* record value; the byte buffer and the file are sequences of them.       *)
(* Fields "by", "call" and "at" of events and values are history fields:   *)
(* which thread's which call produced them, and the step counter when a    *)
(* value was stored.  So are the variables appended and recorded.  No      *)
(* action's guard reads them.                                              *)
(***************************************************************************)
EXTENDS Integers, Sequences, FiniteSets, TLC

VARIABLES
    pyMajor,        \* sys.version_info[0] of the interpreter
    flushSecs,      \* self._flushSecs: "None" or "secs"
    creationStep,   \* self._creationStep: <<>> (None) or <<k>>
    currentStep,    \* self._currentStep
    values,         \* self._values: tag -> value
    metadata,       \* self._metadata: set of tags seen
    bytebuffer,     \* self.__bytebuffer
    file,           \* contents of the file at self._logFilePath
    isExiting,      \* self._isExiting
    hasDaemon,      \* hasattr(self, "_daemonThread")
    daemon,         \* where the daemon thread is in _daemonRun
    spawned,        \* number of Thread.start() calls so far
    lockOwner,      \* owner of self._lock (an RLock)
    lockDepth,      \* its recursion level
    pc,             \* where each producer thread is
    frame,          \* locals of the call a producer thread is in
    ncalls,         \* calls made so far by each producer thread
    tagScopePath,   \* EventLogger.__tls._tagScopePath of each thread
    scopes,         \* suspended tagscope() generators of each thread
    resolved,       \* what the getFullTag call just made returned or raised
    loggerStack,    \* EventLogger.__tls._loggerStack of each thread
    default,        \* what the getDefault() call just made returned
    appended,       \* every event appended to the byte buffer so far
    recorded,       \* every value stored by recordValue so far, in order
    ioFailures,     \* I/O errors raised so far by open/write/flush
    callBudget      \* calls the producer threads may make in total

vars == <<pyMajor, flushSecs, creationStep, currentStep, values, metadata,
          bytebuffer, file, isExiting, hasDaemon, daemon, spawned, lockOwner,
          lockDepth, pc, frame, ncalls, tagScopePath, scopes, resolved,
          loggerStack, default, appended, recorded, ioFailures, callBudget>>

---------------------------------------------------------------------------
(* Bounds of the model. *)

\* Calls the producer threads make in total, on a reliable filesystem.
MaxCalls == 3
\* Calls they make in total, and I/O errors raised, on a failing filesystem.
MaxFailCalls == 2
MaxFail == 1
\* Log calls each thread makes in the concurrent-logging scenario.
ConcCalls == 2
\* Length a thread's tag scope path may reach, and tag scopes a thread may
\* have open, in the tag scope specification.
MaxPath == 2
MaxDepth == 2
\* Calls the producer threads make in total on a NullEventLogger.
MaxNullCalls == 2
\* Calls the producer threads make in total, well-formed or not.
MaxInputCalls == 2
\* Calls the producer threads make in total when they also call
\* recordValue, appendBuffer and appendSummary themselves.
MaxDirectCalls == 2
\* Loggers a thread may have entered as default loggers and not left.
MaxStack == 2

Producers == {"p1", "p2"}
DaemonId == "d"
Threads == Producers \cup {DaemonId}
NoThread == "none"

\* Tags given to the log* methods, scalars logged, arguments of step(k).
InputTags == {<<"x">>, <<"y">>}
Scalars == {1}
StepArgs == {0, 2}
CreationSteps == {<<>>, <<0>>, <<1>>}
FlushSecsChoices == {"None", "secs"}
\* How a failing flush fails: open() raises (nothing is written), or the
\* write reaches the file and f.flush()/close raises afterwards.
FailKinds == {"open", "write"}

EmptyVals == [tg \in {} |-> 0]
\* Locals of a call that stands inside flush(): the method called, the
\* argument of step(k), whether flush() took its write branch; and, as
\* history, the pending values and the step counter when the call began.
NoFrame == [op |-> "none", k |-> 0, wrote |-> FALSE, pend |-> EmptyVals,
            step0 |-> 0]

NotResolved == [by |-> NoThread, result |-> "none", tag |-> <<>>]
NoDefault == [by |-> NoThread, logger |-> "none"]

TotalCalls == ncalls["p1"] + ncalls["p2"]

---------------------------------------------------------------------------
(* Strings. *)

Sep == "/"

RECURSIVE CollapseSep(_)
\* re.sub("/+", "/", tag)
CollapseSep(s) ==
    IF Len(s) <= 1 THEN s
    ELSE IF s[1] = Sep /\ s[2] = Sep THEN CollapseSep(Tail(s))
    ELSE <<s[1]>> \o CollapseSep(Tail(s))

RECURSIVE Join(_)
\* "/".join(parts)
Join(parts) ==
    IF parts = <<>> THEN <<>>
    ELSE IF Len(parts) = 1 THEN parts[1]
    ELSE parts[1] \o <<Sep>> \o Join(Tail(parts))

\* tag.startswith("/")
StartsWithSep(tag) == Len(tag) > 0 /\ tag[1] = Sep

\* getFullTag, defined when its assertion holds.
getFullTag(path, tag) == Join(path \o <<CollapseSep(tag)>>)

---------------------------------------------------------------------------
(* Values and events. *)

\* TfValue(tag, simpleValue=float(scalar), metadata=metadata)
TfValue(tag, scalar, hasMeta, t, call) ==
    [tag |-> tag, v |-> scalar, meta |-> hasMeta, at |-> 0,
     by |-> t, call |-> call]

Event(type, step, vals, t, call) ==
    [type |-> type, step |-> step, vals |-> vals, by |-> t, call |-> call]

\* TfEvent(step=..., fileVersion="brain.Event:2")
TfHeader(step) == Event("header", step, EmptyVals, "init", 0)
\* TfSessionLog(TfSessionStatus.START, "Restarting...", logDir).asEvent(step)
TfRestart(step) == Event("session", step, EmptyVals, "init", 0)
\* TfSummary(self._values).asEvent(step=self._currentStep)
TfSummary(vals, step, t, call) == Event("summary", step, vals, t, call)
\* TfLogMessage(msg, level).asEvent(step=self._currentStep)
TfLogMessage(step, t, call) == Event("message", step, EmptyVals, t, call)
\* TfSessionLog(status, msg, path).asEvent(step=self._currentStep)
TfSessionLog(step, t, call) == Event("session", step, EmptyVals, t, call)

---------------------------------------------------------------------------
(* The logger's fields as one record, and the methods as functions on it.  *)
(* Every method below runs with self._lock held by the calling thread.     *)

Cur ==
    [currentStep |-> currentStep, values |-> values, metadata |-> metadata,
     bytebuffer |-> bytebuffer, file |-> file, isExiting |-> isExiting,
     hasDaemon |-> hasDaemon, daemon |-> daemon, spawned |-> spawned,
     appended |-> appended, recorded |-> recorded]

Set(L) ==
    /\ currentStep' = L.currentStep
    /\ values' = L.values
    /\ metadata' = L.metadata
    /\ bytebuffer' = L.bytebuffer
    /\ file' = L.file
    /\ isExiting' = L.isExiting
    /\ hasDaemon' = L.hasDaemon
    /\ daemon' = L.daemon
    /\ spawned' = L.spawned
    /\ appended' = L.appended
    /\ recorded' = L.recorded

\* _spawnDaemonThread
spawnDaemonThread(L) ==
    IF flushSecs # "None" /\ ~L.hasDaemon
    THEN [L EXCEPT !.hasDaemon = TRUE, !.daemon = "sleep", !.spawned = @ + 1]
    ELSE L

\* appendBuffer(b), b one serialized event
appendBuffer(L, b) ==
    spawnDaemonThread([L EXCEPT !.bytebuffer = Append(@, b),
                                !.appended = Append(@, b)])

\* appendSummary, called by thread t in its call number call
appendSummary(L, t, call) ==
    IF DOMAIN L.values # {}
    THEN [appendBuffer(L, TfSummary(L.values, L.currentStep, t, call))
            EXCEPT !.values = EmptyVals]
    ELSE L

\* Faulty variant: the pending batch is not committed when the tag is pending.
maybeForceAppendNever(L, tag, t, call) == L

\* Faulty variant: the pending batch is committed whenever anything is pending.
maybeForceAppendAlways(L, tag, t, call) == appendSummary(L, t, call)

\* __maybeForceAppend(tag)
maybeForceAppend(L, tag, t, call) ==
    IF tag \in DOMAIN L.values THEN appendSummary(L, t, call) ELSE L

\* Faulty variant: the metadata is dropped only for a tag of the pending batch.
recordValueBatchSeen(L, tag, val) ==
    LET stored == [val EXCEPT !.meta = IF tag \in DOMAIN L.values
                                       THEN FALSE ELSE @,
                              !.at = L.currentStep]
    IN [L EXCEPT !.values = (tag :> stored) @@ @,
                 !.metadata = @ \cup {tag},
                 !.recorded = Append(@, stored)]

\* Faulty variant: storing a value starts the daemon thread.
recordValueSpawns(L, tag, val) ==
    LET stored == [val EXCEPT !.meta = IF tag \in L.metadata THEN FALSE ELSE @,
                              !.at = L.currentStep]
    IN spawnDaemonThread([L EXCEPT !.values = (tag :> stored) @@ @,
                                   !.metadata = @ \cup {tag},
                                   !.recorded = Append(@, stored)])

\* recordValue(tag, val)
recordValue(L, tag, val) ==
    LET stored == [val EXCEPT !.meta = IF tag \in L.metadata THEN FALSE ELSE @,
                              !.at = L.currentStep]
    IN [L EXCEPT !.values = (tag :> stored) @@ @,
                 !.metadata = @ \cup {tag},
                 !.recorded = Append(@, stored)]

\* flush, up to and including f.write()/f.flush(): the summary is enqueued
\* and a non-empty byte buffer is written to the file.
flushWrite(L, t, call) ==
    LET L1 == appendSummary(L, t, call)
    IN IF L1.bytebuffer # <<>>
       THEN [L1 EXCEPT !.file = @ \o L1.bytebuffer]
       ELSE L1

\* flush, when open() or the write raises: kind says how much reached the file.
flushRaise(L, t, call, kind) ==
    LET L1 == appendSummary(L, t, call)
    IN IF kind = "write" THEN [L1 EXCEPT !.file = @ \o L1.bytebuffer] ELSE L1

\* flush, the statement after the write: self.__bytebuffer = bytearray(),
\* executed when the buffer was non-empty at the test before the write.
flushClear(L, wrote) ==
    IF wrote THEN [L EXCEPT !.bytebuffer = <<>>] ELSE L

---------------------------------------------------------------------------
(* The lock. *)

\* Faulty variant: a lock that excludes nobody.
CanAcquireAlways(t) == TRUE

\* threading.RLock.acquire by thread t does not block
CanAcquire(t) == lockOwner \in {NoThread, t}

Acquire(t, depth) == lockOwner' = t /\ lockDepth' = depth
Release == lockOwner' = NoThread /\ lockDepth' = 0
LockFree == UNCHANGED <<lockOwner, lockDepth>>

---------------------------------------------------------------------------
(* Initial state: the state __init__ leaves. *)

\* Faulty variant: the restart event is left out for step 0.
InitBufferNonzero(cs) ==
    IF cs = <<>> \/ cs[1] = 0 THEN <<TfHeader(IF cs = <<>> THEN 0 ELSE cs[1])>>
    ELSE <<TfHeader(cs[1]), TfRestart(cs[1])>>

\* What __init__ puts into the byte buffer, for step=None (cs = <<>>) and
\* for step=k (cs = <<k>>).
InitBuffer(cs) ==
    IF cs = <<>> THEN <<TfHeader(0)>>
    ELSE <<TfHeader(cs[1]), TfRestart(cs[1])>>

InitLogger ==
    /\ flushSecs \in FlushSecsChoices
    /\ creationStep \in CreationSteps
    /\ currentStep = IF creationStep = <<>> THEN 0 ELSE creationStep[1]
    /\ values = EmptyVals
    /\ metadata = {}
    /\ bytebuffer = InitBuffer(creationStep)
    /\ appended = bytebuffer
    /\ recorded = <<>>
    /\ file = <<>>
    /\ isExiting = FALSE
    /\ hasDaemon = FALSE
    /\ daemon = "none"
    /\ spawned = 0
    /\ lockOwner = NoThread
    /\ lockDepth = 0
    /\ pc = [t \in Producers |-> "idle"]
    /\ frame = [t \in Threads |-> NoFrame]
    /\ ncalls = [t \in Producers |-> 0]
    /\ tagScopePath = [t \in Producers |-> <<>>]
    /\ scopes = [t \in Producers |-> <<>>]
    /\ resolved = NotResolved
    /\ loggerStack = [t \in Producers |-> <<>>]
    /\ default = NoDefault
    /\ ioFailures = 0

\* Python 2 (no action of Spec depends on the interpreter's version).
Init == InitLogger /\ pyMajor = 2 /\ callBudget = MaxCalls

---------------------------------------------------------------------------
(* Calls of the producer threads. *)

CanCall(t) == pc[t] = "idle" /\ TotalCalls < callBudget

Called(t) == ncalls' = [ncalls EXCEPT ![t] = @ + 1]

ScopeUnchanged == UNCHANGED <<tagScopePath, scopes, resolved>>
RegistryUnchanged == UNCHANGED <<loggerStack, default>>
ConfigUnchanged ==
    /\ UNCHANGED <<pyMajor, flushSecs, creationStep, callBudget>>
    /\ RegistryUnchanged

\* logScalar(tag, scalar, ...): getFullTag, then under the lock
\* __maybeForceAppend(tag).recordValue(tag, val)
logScalar(t, tag, scalar, hasMeta) ==
    /\ CanCall(t)
    /\ ~StartsWithSep(tag)
    /\ CanAcquire(t)
    /\ LET call == ncalls[t] + 1
           full == getFullTag(tagScopePath[t], tag)
           val == TfValue(full, scalar, hasMeta, t, call)
       IN Set(recordValue(maybeForceAppend(Cur, full, t, call), full, val))
    /\ Called(t)
    /\ LockFree
    /\ UNCHANGED <<pc, frame, ioFailures>>
    /\ ScopeUnchanged /\ ConfigUnchanged

\* Faulty variant: the step counter is incremented before the batch is committed.
stepAdvanceEarly(L, t, call) ==
    appendSummary([L EXCEPT !.currentStep = @ + 1], t, call)

\* Faulty variant: the step counter is incremented only when a batch was pending.
stepAdvanceSkip(L, t, call) ==
    IF DOMAIN L.values # {}
    THEN [appendSummary(L, t, call) EXCEPT !.currentStep = @ + 1]
    ELSE L

\* step(): appendSummary, then the step counter is incremented
stepAdvance(L, t, call) ==
    [appendSummary(L, t, call) EXCEPT !.currentStep = @ + 1]

Step(t) ==
    /\ CanCall(t)
    /\ CanAcquire(t)
    /\ Set(stepAdvance(Cur, t, ncalls[t] + 1))
    /\ Called(t)
    /\ LockFree
    /\ UNCHANGED <<pc, frame, ioFailures>>
    /\ ScopeUnchanged /\ ConfigUnchanged

\* The flush() call inside call number ncalls[t]+1 of producer t, made with
\* the logger as L0 and the lock held depth times: the write is done and the
\* thread stands before the buffer reset, still holding the lock.
callFlush(t, L0, op, k, depth) ==
    LET call == ncalls[t] + 1
    IN /\ CanCall(t)
       /\ CanAcquire(t)
       /\ Set(flushWrite(L0, t, call))
       /\ pc' = [pc EXCEPT ![t] = "in_flush"]
       /\ frame' = [frame EXCEPT ![t] =
                      [op |-> op, k |-> k,
                       wrote |-> appendSummary(L0, t, call).bytebuffer # <<>>,
                       pend |-> values, step0 |-> currentStep]]
       /\ Acquire(t, depth)
       /\ Called(t)
       /\ UNCHANGED ioFailures
       /\ ScopeUnchanged /\ ConfigUnchanged

\* The same call when open() or the write raises: the exception leaves the
\* call, which releases the lock; the buffer is not reset.
callFlushRaise(t, L0) ==
    LET call == ncalls[t] + 1
    IN /\ CanCall(t)
       /\ CanAcquire(t)
       /\ ioFailures < MaxFail
       /\ appendSummary(L0, t, call).bytebuffer # <<>>
       /\ \E kind \in FailKinds : Set(flushRaise(L0, t, call, kind))
       /\ ioFailures' = ioFailures + 1
       /\ Called(t)
       /\ LockFree
       /\ UNCHANGED <<pc, frame>>
       /\ ScopeUnchanged /\ ConfigUnchanged

\* The rest of a call that stands inside flush(): the buffer reset and what
\* the caller of flush() does after it, giving the logger L; then the return.
callReturn(t, op, L) ==
    /\ pc[t] = "in_flush"
    /\ frame[t].op = op
    /\ Set(L)
    /\ pc' = [pc EXCEPT ![t] = "idle"]
    /\ frame' = [frame EXCEPT ![t] = NoFrame]
    /\ Release
    /\ UNCHANGED <<ncalls, ioFailures>>
    /\ ScopeUnchanged /\ ConfigUnchanged

\* flush()
Flush(t) == callFlush(t, Cur, "flush", 0, 1)
FlushRaise(t) == callFlushRaise(t, Cur)
FlushReturn(t) == callReturn(t, "flush", flushClear(Cur, frame[t].wrote))

\* Faulty variant: step(k) only ever moves the step counter forward.
setStepAssignForward(L, k) ==
    IF k > L.currentStep THEN [L EXCEPT !.currentStep = k] ELSE L

\* step(k): flush(), then self._currentStep = int(step)
setStepAssign(L, k) == [L EXCEPT !.currentStep = k]

SetStep(t, k) == callFlush(t, Cur, "step", k, 2)
SetStepRaise(t) == callFlushRaise(t, Cur)
SetStepReturn(t) ==
    callReturn(t, "step",
               setStepAssign(flushClear(Cur, frame[t].wrote), frame[t].k))

\* Faulty variant: logMessage leaves the commit of the batch to its flush().
logMessageBodyLate(L, t, call) ==
    appendBuffer(L, TfLogMessage(L.currentStep, t, call))

\* logMessage(msg, level), up to the flush() it ends with
logMessageBody(L, t, call) ==
    LET L1 == appendSummary(L, t, call)
    IN appendBuffer(L1, TfLogMessage(L1.currentStep, t, call))

LogMessage(t) ==
    callFlush(t, logMessageBody(Cur, t, ncalls[t] + 1), "logMessage", 0, 2)
LogMessageRaise(t) ==
    callFlushRaise(t, logMessageBody(Cur, t, ncalls[t] + 1))
LogMessageReturn(t) ==
    callReturn(t, "logMessage", flushClear(Cur, frame[t].wrote))

\* logSession(status, msg, path), up to the flush() it ends with
logSessionBody(L, t, call) ==
    LET L1 == appendSummary(L, t, call)
    IN appendBuffer(L1, TfSessionLog(L1.currentStep, t, call))

LogSession(t) ==
    callFlush(t, logSessionBody(Cur, t, ncalls[t] + 1), "logSession", 0, 2)
LogSessionRaise(t) ==
    callFlushRaise(t, logSessionBody(Cur, t, ncalls[t] + 1))
LogSessionReturn(t) ==
    callReturn(t, "logSession", flushClear(Cur, frame[t].wrote))

\* __del__: flush(), then self._isExiting = True
delExit(L) == [L EXCEPT !.isExiting = TRUE]

Del(t) == ~isExiting /\ callFlush(t, Cur, "del", 0, 2)
DelRaise(t) == ~isExiting /\ callFlushRaise(t, Cur)
DelReturn(t) ==
    callReturn(t, "del", delExit(flushClear(Cur, frame[t].wrote)))

---------------------------------------------------------------------------
(* The daemon thread, _daemonRun. *)

DaemonUnchanged ==
    /\ UNCHANGED <<pc, ncalls>>
    /\ ScopeUnchanged /\ ConfigUnchanged

\* After time.sleep(): the lock is taken and flush() writes.
DaemonFlush ==
    /\ daemon = "sleep"
    /\ CanAcquire(DaemonId)
    /\ Set([flushWrite(Cur, DaemonId, 0) EXCEPT !.daemon = "in_flush"])
    /\ frame' = [frame EXCEPT ![DaemonId] =
                   [op |-> "daemon", k |-> 0,
                    wrote |-> appendSummary(Cur, DaemonId, 0).bytebuffer # <<>>,
                    pend |-> values, step0 |-> currentStep]]
    /\ Acquire(DaemonId, 2)
    /\ UNCHANGED ioFailures
    /\ DaemonUnchanged

\* What an exception raised by flush() does to the daemon thread: nothing in
\* _daemonRun catches it, the with block releases the lock and the thread
\* ends, self._daemonThread still set.
daemonRaise(L) == [L EXCEPT !.daemon = "dead"]

DaemonFlushRaise ==
    /\ daemon = "sleep"
    /\ CanAcquire(DaemonId)
    /\ ioFailures < MaxFail
    /\ appendSummary(Cur, DaemonId, 0).bytebuffer # <<>>
    /\ \E kind \in FailKinds :
          Set(daemonRaise(flushRaise(Cur, DaemonId, 0, kind)))
    /\ ioFailures' = ioFailures + 1
    /\ LockFree
    /\ UNCHANGED frame
    /\ DaemonUnchanged

\* Faulty variant: the loop never looks at self._isExiting.
daemonCheckNever(L) == [L EXCEPT !.daemon = "sleep"]

\* The end of one round of the loop: if self._isExiting, the thread deletes
\* self._daemonThread and breaks; otherwise it sleeps again.
daemonCheck(L) ==
    IF L.isExiting
    THEN [L EXCEPT !.hasDaemon = FALSE, !.daemon = "done"]
    ELSE [L EXCEPT !.daemon = "sleep"]

DaemonCheck ==
    /\ daemon = "in_flush"
    /\ Set(daemonCheck(flushClear(Cur, frame[DaemonId].wrote)))
    /\ frame' = [frame EXCEPT ![DaemonId] = NoFrame]
    /\ Release
    /\ UNCHANGED ioFailures
    /\ DaemonUnchanged

---------------------------------------------------------------------------
(* The logger on a reliable filesystem. *)

Next ==
    \/ \E t \in Producers, tag \in InputTags, s \in Scalars, m \in BOOLEAN :
          logScalar(t, tag, s, m)
    \/ \E t \in Producers : Step(t)
    \/ \E t \in Producers, k \in StepArgs : SetStep(t, k)
    \/ \E t \in Producers : SetStepReturn(t)
    \/ \E t \in Producers : Flush(t)
    \/ \E t \in Producers : FlushReturn(t)
    \/ \E t \in Producers : LogMessage(t)
    \/ \E t \in Producers : LogMessageReturn(t)
    \/ \E t \in Producers : LogSession(t)
    \/ \E t \in Producers : LogSessionReturn(t)
    \/ \E t \in Producers : Del(t)
    \/ \E t \in Producers : DelReturn(t)
    \/ DaemonFlush
    \/ DaemonCheck

Spec == Init /\ [][Next]_vars

(* The logger on a filesystem whose open() and write can raise. *)

InitFail == InitLogger /\ pyMajor = 2 /\ callBudget = MaxFailCalls

NextFail ==
    \/ Next
    \/ \E t \in Producers : FlushRaise(t)
    \/ \E t \in Producers : SetStepRaise(t)
    \/ \E t \in Producers : LogMessageRaise(t)
    \/ \E t \in Producers : LogSessionRaise(t)
    \/ \E t \in Producers : DelRaise(t)
    \/ DaemonFlushRaise

SpecFail == InitFail /\ [][NextFail]_vars

---------------------------------------------------------------------------
(* Tag scopes: with logger.tagscope(names...): body *)

NameA == <<"a">>
NameB == <<"b">>
\* Argument lists of tagscope(): the last two hold an empty name and a name
\* with the separator.
ScopeArgs == {<<>>, <<NameA>>, <<NameA, NameB>>,
              <<NameA, <<>>>>, <<<<"a", Sep, "b">>>>}

\* The three assertions on one group name.  Under Python 3 a str name is
\* replaced by its UTF-8 encoding, a bytes object, before
\* assert isinstance(groupName, str); a bytes name is not encoded: in both
\* cases the first assertion fails.  Under Python 2 a unicode name is
\* encoded to a str and a str name is left alone.
groupNameOK(name) ==
    /\ pyMajor < 3
    /\ name # <<>>
    /\ \A i \in 1..Len(name) : name[i] # Sep

tagscopeValid(names) == \A i \in 1..Len(names) : groupNameOK(names[i])

ScopeFrame ==
    /\ UNCHANGED <<currentStep, values, metadata, bytebuffer, file, isExiting,
                   hasDaemon, daemon, spawned, lockOwner, lockDepth, pc,
                   frame, ncalls, appended, recorded, ioFailures>>
    /\ ConfigUnchanged

\* The generator up to its yield: the names are checked, then pushed.
TagscopeEnter(t, names) ==
    /\ pc[t] = "idle"
    /\ tagscopeValid(names)
    /\ Len(tagScopePath[t]) + Len(names) <= MaxPath
    /\ Len(scopes[t]) < MaxDepth
    /\ tagScopePath' = [tagScopePath EXCEPT ![t] = @ \o names]
    /\ scopes' = [scopes EXCEPT ![t] =
                     Append(@, [names |-> names, before |-> tagScopePath[t]])]
    /\ resolved' = NotResolved
    /\ ScopeFrame

\* An assertion on a name fails: nothing was pushed, the body does not run.
TagscopeReject(t, names) ==
    /\ pc[t] = "idle"
    /\ ~tagscopeValid(names)
    /\ UNCHANGED <<tagScopePath, scopes>>
    /\ resolved' = NotResolved
    /\ ScopeFrame

\* What the generator does to the path when the body of the innermost open
\* scope ends normally: it resumes after the yield and pops once per name.
tagscopeResume(path, names) == SubSeq(path, 1, Len(path) - Len(names))

\* What it does when the body raises: the exception is thrown into the
\* generator at the yield, which no try statement encloses, and leaves it.
tagscopeThrow(path, names) == path

TagscopeExit(t) ==
    /\ pc[t] = "idle"
    /\ scopes[t] # <<>>
    /\ tagScopePath' = [tagScopePath EXCEPT ![t] =
                           tagscopeResume(@, scopes[t][Len(scopes[t])].names)]
    /\ scopes' = [scopes EXCEPT ![t] = SubSeq(@, 1, Len(@) - 1)]
    /\ resolved' = NotResolved
    /\ ScopeFrame

TagscopeBodyRaises(t) ==
    /\ pc[t] = "idle"
    /\ scopes[t] # <<>>
    /\ tagScopePath' = [tagScopePath EXCEPT ![t] =
                           tagscopeThrow(@, scopes[t][Len(scopes[t])].names)]
    /\ scopes' = [scopes EXCEPT ![t] = SubSeq(@, 1, Len(@) - 1)]
    /\ resolved' = NotResolved
    /\ ScopeFrame

\* getFullTag(tag) called by thread t: the assertion fails on a tag that
\* starts with the separator, otherwise the full tag is returned.
ResolveTags == InputTags \cup {<<Sep, "x">>, <<"x", Sep, Sep, "y">>}

GetFullTag(t, tag) ==
    /\ pc[t] = "idle"
    /\ resolved' =
          IF StartsWithSep(tag)
          THEN [by |-> t, result |-> "AssertionError", tag |-> tag]
          ELSE [by |-> t, result |-> "returned",
                tag |-> getFullTag(tagScopePath[t], tag)]
    /\ UNCHANGED <<tagScopePath, scopes>>
    /\ ScopeFrame

\* A logger created without a step and with flushing disabled, with no
\* call made on it, under either major version of Python.
InitScope ==
    /\ InitLogger
    /\ flushSecs = "None"
    /\ creationStep = <<>>
    /\ pyMajor \in {2, 3}
    /\ callBudget = 0

NextScope ==
    \/ \E t \in Producers, names \in ScopeArgs : TagscopeEnter(t, names)
    \/ \E t \in Producers, names \in ScopeArgs : TagscopeReject(t, names)
    \/ \E t \in Producers : TagscopeExit(t)
    \/ \E t \in Producers : TagscopeBodyRaises(t)
    \/ \E t \in Producers, tag \in ResolveTags : GetFullTag(t, tag)

SpecScope == InitScope /\ [][NextScope]_vars

---------------------------------------------------------------------------
(* The concurrent-logging scenario: every producer thread makes ConcCalls  *)
(* log calls under tags of its own, and when all are done one thread calls *)
(* flush() once.  The daemon thread runs as in Spec.                       *)

Letter(t) == IF t = "p1" THEN "x" ELSE "y"
OwnTags(t) == {[i \in 1..n |-> Letter(t)] : n \in 1..ConcCalls}

ConcLog(t, tag, s) ==
    /\ ncalls[t] < ConcCalls
    /\ logScalar(t, tag, s, TRUE)

ConcFlush ==
    /\ \A t \in Producers : ncalls[t] = ConcCalls
    /\ Flush("p1")

ConcFlushReturn == FlushReturn("p1")

InitConc ==
    /\ InitLogger
    /\ pyMajor = 2
    /\ callBudget = Cardinality(Producers) * ConcCalls + 1

NextConc ==
    \/ \E t \in Producers, s \in Scalars : \E tag \in OwnTags(t) :
          ConcLog(t, tag, s)
    \/ ConcFlush
    \/ ConcFlushReturn
    \/ DaemonFlush
    \/ DaemonCheck

SpecConc == InitConc /\ [][NextConc]_vars

---------------------------------------------------------------------------
(* Properties. *)

Idle == (\A t \in Producers : pc[t] = "idle") /\ daemon # "in_flush"

Last(q) == q[Len(q)]

\* The summary events appended so far that hold value v, and whether v is
\* in the pending batch.
Holders(v) ==
    {j \in 1..Len(appended) :
        /\ appended[j].type = "summary"
        /\ v.tag \in DOMAIN appended[j].vals
        /\ appended[j].vals[v.tag] = v}

Pending(v) == v.tag \in DOMAIN values /\ values[v.tag] = v

\* Event r is the summary of the batch vals committed at step n.
IsSummaryOf(r, vals, n) == r.type = "summary" /\ r.vals = vals /\ r.step = n

\* Every value stored is pending or in exactly one summary event; a value
\* followed by another under the same tag is in an earlier summary event.
C1_Kept ==
    \A i \in 1..Len(recorded) :
        LET v == recorded[i]
        IN /\ Cardinality(Holders(v)) + (IF Pending(v) THEN 1 ELSE 0) = 1
           /\ \A j \in (i + 1)..Len(recorded) :
                 recorded[j].tag = v.tag =>
                    /\ Holders(v) # {}
                    /\ \A a \in Holders(v), b \in Holders(recorded[j]) : a < b

\* A log call under a pending tag appends the summary of the pending batch
\* to the byte buffer and leaves the new value alone pending.
C1_Forced ==
    \A t \in Producers, tag \in InputTags, s \in Scalars, m \in BOOLEAN :
        LET full == getFullTag(tagScopePath[t], tag)
        IN logScalar(t, tag, s, m) /\ full \in DOMAIN values =>
              /\ Len(bytebuffer') = Len(bytebuffer) + 1
              /\ SubSeq(bytebuffer', 1, Len(bytebuffer)) = bytebuffer
              /\ IsSummaryOf(Last(bytebuffer'), values, currentStep)
              /\ DOMAIN values' = {full}
              /\ values'[full].v = s
              /\ values'[full].call = ncalls[t] + 1
              /\ values'[full] # values[full]

(* C1: a value logged under a tag is never overwritten or dropped: it is   *)
(* either pending or in exactly one summary event, and once a later value  *)
(* is logged under the same tag it is in a summary event that precedes the *)
(* later value's.  A log call under a tag that is pending appends to the   *)
(* byte buffer one summary event holding the pending batch (with the       *)
(* earlier value) and leaves exactly the new value pending.                *)
C1_SameTagTwice == []C1_Kept /\ [][C1_Forced]_vars

\* Two values logged under one tag, the first in a summary event in the
\* byte buffer and the second pending.
C1_Witness ==
    \E i, j \in 1..Len(recorded) :
        /\ i < j
        /\ recorded[i].tag = recorded[j].tag
        /\ Pending(recorded[j])
        /\ \E n \in 1..Len(bytebuffer) :
              /\ bytebuffer[n].type = "summary"
              /\ recorded[i].tag \in DOMAIN bytebuffer[n].vals
              /\ bytebuffer[n].vals[recorded[i].tag] = recorded[i]

StepsMatch(q) ==
    \A n \in 1..Len(q) :
        q[n].type = "summary" =>
            \A tag \in DOMAIN q[n].vals : q[n].vals[tag].at = q[n].step

(* C2: every value in a summary event, in the file or in the byte buffer,  *)
(* was stored while the step counter had that event's step; and every      *)
(* pending value was stored at the current step.                           *)
C2_StepOfValue ==
    /\ StepsMatch(file)
    /\ StepsMatch(bytebuffer)
    /\ \A tag \in DOMAIN values : values[tag].at = currentStep

\* A summary event in the file, written after the step counter has moved on.
C2_Witness ==
    \E n \in 1..Len(file) :
        /\ file[n].type = "summary"
        /\ file[n].step # currentStep
        /\ DOMAIN values # {}

(* C3: whenever no thread stands inside flush() between the write and the  *)
(* buffer reset, the file followed by the byte buffer is the sequence of   *)
(* all events appended so far, each once, and the events of one thread are *)
(* in the order of that thread's calls.                                    *)
C3_FileThenBuffer ==
    Idle =>
        LET q == file \o bytebuffer
        IN /\ q = appended
           /\ \A a, b \in 1..Len(q) :
                 a < b =>
                    /\ q[a] # q[b]
                    /\ q[a].by = q[b].by => q[a].call <= q[b].call

\* An event of one producer thread in the file and, after calls of both
\* threads, an event of the other in the byte buffer.
C3_Witness ==
    /\ Idle
    /\ \E a \in 1..Len(file), b \in 1..Len(bytebuffer) :
          file[a].by = "p1" /\ bytebuffer[b].by = "p2"

\* Thread t returns from the call op it stands in.
Returns(t, op) == pc[t] = "in_flush" /\ frame[t].op = op /\ pc'[t] = "idle"

C5_Return(t, op, type) ==
    Returns(t, op) =>
        LET n == Len(file')
            pend == frame[t].pend
        IN /\ bytebuffer' = <<>>
           /\ DOMAIN values' = {}
           /\ file' = appended'
           /\ n >= 1
           /\ file'[n].type = type
           /\ file'[n].by = t
           /\ file'[n].call = ncalls[t]
           /\ file'[n].step = frame[t].step0
           /\ DOMAIN pend # {} =>
                 n >= 2 /\ IsSummaryOf(file'[n - 1], pend, frame[t].step0)

C5_Act ==
    \A t \in Producers :
        /\ C5_Return(t, "logMessage", "message")
        /\ C5_Return(t, "logSession", "session")

(* C5: when logMessage or logSession returns, the byte buffer and the      *)
(* pending batch are empty, every event appended so far is in the file,    *)
(* the file ends with the message or session event of this call, and if    *)
(* values were pending when the call began their summary, tagged with the  *)
(* step of the call, is the event right before it.                         *)
C5_MessageOnDisk == [][C5_Act]_vars

\* On a logger with flushing disabled, a message is the last event of the
\* file, right after the summary committed by the same call.
C5_Witness ==
    /\ Idle
    /\ flushSecs = "None"
    /\ bytebuffer = <<>>
    /\ Len(file) >= 2
    /\ Last(file).type = "message"
    /\ file[Len(file) - 1].type = "summary"
    /\ file[Len(file) - 1].by = Last(file).by
    /\ file[Len(file) - 1].call = Last(file).call

C6_Flushed ==
    \A t \in Producers :
        pc[t] = "in_flush" /\ frame[t].op = "step" =>
            /\ currentStep = frame[t].step0
            /\ DOMAIN values = {}
            /\ file = appended
            /\ DOMAIN frame[t].pend # {} =>
                  IsSummaryOf(Last(file), frame[t].pend, frame[t].step0)

C6_Assign ==
    \A t \in Producers :
        Returns(t, "step") =>
            /\ currentStep' = frame[t].k
            /\ bytebuffer' = <<>>
            /\ DOMAIN values' = {}
            /\ file' = file
            /\ file' = appended'

(* C6: while step(k) stands between its flush and its assignment, the step *)
(* counter is still the old one, nothing is pending and every event        *)
(* appended so far is in the file, the summary of what was pending last    *)
(* and tagged with the old step; the assignment then sets the counter to k *)
(* (whether or not k exceeds the old step), with the byte buffer empty and *)
(* the file unchanged.                                                     *)
C6_SetStepFlushes == []C6_Flushed /\ [][C6_Assign]_vars

\* step(0) on a logger created at step 1 has returned: the counter is 0 and
\* the file ends with the summary of the batch, tagged step 1.
C6_Witness ==
    /\ Idle
    /\ creationStep = <<1>>
    /\ currentStep = 0
    /\ bytebuffer = <<>>
    /\ file # <<>>
    /\ Last(file).type = "summary"
    /\ Last(file).step = 1

C7_Act ==
    \A t \in Producers :
        Step(t) =>
            /\ currentStep' = currentStep + 1
            /\ file' = file
            /\ DOMAIN values' = {}
            /\ IF DOMAIN values # {}
               THEN /\ Len(bytebuffer') = Len(bytebuffer) + 1
                    /\ SubSeq(bytebuffer', 1, Len(bytebuffer)) = bytebuffer
                    /\ IsSummaryOf(Last(bytebuffer'), values, currentStep)
               ELSE bytebuffer' = bytebuffer

(* C7: step() increments the step counter by one and leaves the file       *)
(* alone and the batch empty; it appends to the byte buffer one summary    *)
(* event holding the whole pending batch and tagged with the old step if   *)
(* the batch was not empty, and nothing if it was.                         *)
C7_Advance == [][C7_Act]_vars

\* After log calls and one step() on a logger created without a step: the
\* counter is 1, the summary tagged 0 is in the buffer, no file is written.
C7_Witness ==
    /\ creationStep = <<>>
    /\ currentStep = 1
    /\ file = <<>>
    /\ DOMAIN values = {}
    /\ Last(bytebuffer).type = "summary"
    /\ Last(bytebuffer).step = 0
    /\ Cardinality(DOMAIN Last(bytebuffer).vals) = 2

C10_Act ==
    /\ \A t \in Producers :
          Returns(t, "del") =>
              /\ ~isExiting /\ isExiting'
              /\ bytebuffer' = <<>>
              /\ DOMAIN values' = {}
              /\ file' = file
              /\ file' = appended'
    /\ (~isExiting /\ isExiting') =>
          /\ daemon # "in_flush"
          /\ \E t \in Producers : Returns(t, "del")
    /\ isExiting => isExiting'
    /\ (isExiting /\ daemon = "in_flush" /\ daemon' # "in_flush") =>
          daemon' = "done" /\ ~hasDaemon'
    /\ (isExiting /\ daemon = "sleep" /\ daemon' # "sleep") =>
          daemon' = "in_flush"
    /\ (daemon = "done" /\ daemon' # "done") =>
          daemon' = "sleep" /\ spawned' = spawned + 1

(* C10: __del__ flushes and only then sets the exiting flag: when it       *)
(* returns the flag is set, nothing is pending and every event is in the   *)
(* file.  The flag is never set while the daemon thread is inside a round  *)
(* and never reset; a round of the daemon thread that ends with the flag   *)
(* set ends the thread, and an ended daemon thread makes no further round  *)
(* (only a newly started thread does).                                     *)
C10_DisposalStopsDaemon == [][C10_Act]_vars

\* The daemon thread has ended after __del__ set the flag.
C10_Witness == isExiting /\ daemon = "done" /\ ~hasDaemon /\ spawned = 1

---------------------------------------------------------------------------
(* Properties of the other specifications. *)

\* The final flush() of the concurrent-logging scenario has returned.
ConcDone == ncalls["p1"] = ConcCalls + 1 /\ pc["p1"] = "idle"

SummariesIn(q) == {n \in 1..Len(q) : q[n].type = "summary"}

\* Exactly one summary event is in the file, and it holds every value
\* stored so far.
OneSummaryOfAll ==
    /\ Cardinality(SummariesIn(file)) = 1
    /\ \A n \in SummariesIn(file) :
          \A i \in 1..Len(recorded) :
              /\ recorded[i].tag \in DOMAIN file[n].vals
              /\ file[n].vals[recorded[i].tag] = recorded[i]

(* C4 as claimed: after threads have logged concurrently under their own   *)
(* tags and one flush() has followed, exactly one summary event exists.    *)
C4_Claimed == ConcDone => Cardinality(SummariesIn(file)) = 1

(* C4, amended: when every one of the log calls used a tag no other call   *)
(* used (the set of seen tags is as large as the number of values stored), *)
(* the file holds, after the flush(), exactly one summary event, and it    *)
(* holds every value logged; the byte buffer and the batch are empty.      *)
C4_DistinctTags ==
    (ConcDone /\ Cardinality(metadata) = Len(recorded)) =>
        /\ OneSummaryOfAll
        /\ bytebuffer = <<>>
        /\ DOMAIN values = {}

\* Both threads have made all their calls under distinct tags, and the one
\* summary event holds them all.
C4_Witness ==
    /\ ConcDone
    /\ Len(recorded) = Cardinality(Producers) * ConcCalls
    /\ Cardinality(metadata) = Len(recorded)
    /\ OneSummaryOfAll

(* C8 as claimed: when a tag scope of a thread is left, by the normal end  *)
(* of its body or by an exception, the thread's tag scope path is what it  *)
(* was before the scope was entered.                                       *)
C8_Claimed ==
    [][\A t \in Producers :
          (scopes[t] # <<>> /\ scopes'[t] = SubSeq(scopes[t], 1, Len(scopes[t]) - 1))
              => tagScopePath'[t] = scopes[t][Len(scopes[t])].before]_vars

(* C9 as claimed: an I/O error raised by flush() in a round of the daemon  *)
(* thread leaves the daemon thread alive and waiting for its next round.   *)
C9_Claimed ==
    [][(ioFailures' # ioFailures /\ ncalls' = ncalls) => daemon' = "sleep"]_vars

(* C11 as claimed: over the life of a logger Thread.start() is called at   *)
(* most once, whatever appends are made by whatever thread, and never on a *)
(* logger created with flushSecs=None.                                     *)
C11_Claimed ==
    /\ spawned <= 1
    /\ flushSecs = "None" => spawned = 0

---------------------------------------------------------------------------
(* NullEventLogger: the methods it overrides, the methods of EventLogger   *)
(* it inherits as they run on it, and the calls made on one instance.  The *)
(* variables hold the fields of that instance.                             *)

\* NullEventLogger.appendBuffer, recordValue, flush and step return self.
nullAppendBuffer(L, b) == L
\* Faulty variant: recordValue is not overridden.
nullRecordValueInherited(L, tag, val) == recordValue(L, tag, val)
nullRecordValue(L, tag, val) == L
nullFlush(L, t, call) == L
nullStep(L, t, call) == L

\* The inherited appendSummary and __maybeForceAppend: self.appendBuffer is
\* the override.
nullAppendSummary(L, t, call) ==
    IF DOMAIN L.values # {}
    THEN [nullAppendBuffer(L, TfSummary(L.values, L.currentStep, t, call))
            EXCEPT !.values = EmptyVals]
    ELSE L

nullMaybeForceAppend(L, tag, t, call) ==
    IF tag \in DOMAIN L.values THEN nullAppendSummary(L, t, call) ELSE L

\* A call of thread t that ends with the instance as L.
NullCall(t, L) ==
    /\ CanCall(t)
    /\ CanAcquire(t)
    /\ Set(L)
    /\ Called(t)
    /\ LockFree
    /\ UNCHANGED <<pc, frame, ioFailures>>
    /\ ScopeUnchanged /\ ConfigUnchanged

\* The inherited logScalar
NullLogScalar(t, tag, scalar, hasMeta) ==
    /\ ~StartsWithSep(tag)
    /\ LET call == ncalls[t] + 1
           full == getFullTag(tagScopePath[t], tag)
           val == TfValue(full, scalar, hasMeta, t, call)
       IN NullCall(t, nullRecordValue(
                         nullMaybeForceAppend(Cur, full, t, call), full, val))

\* step() and step(k)
NullStep(t) == NullCall(t, nullStep(Cur, t, ncalls[t] + 1))
NullSetStep(t, k) == NullCall(t, nullStep(Cur, t, ncalls[t] + 1))

\* flush()
NullFlush(t) == NullCall(t, nullFlush(Cur, t, ncalls[t] + 1))

\* The inherited logMessage and logSession: appendSummary, appendBuffer of
\* the event, flush.
NullLogMessage(t) ==
    LET call == ncalls[t] + 1
        L1 == nullAppendSummary(Cur, t, call)
        L2 == nullAppendBuffer(L1, TfLogMessage(L1.currentStep, t, call))
    IN NullCall(t, nullFlush(L2, t, call))

NullLogSession(t) ==
    LET call == ncalls[t] + 1
        L1 == nullAppendSummary(Cur, t, call)
        L2 == nullAppendBuffer(L1, TfSessionLog(L1.currentStep, t, call))
    IN NullCall(t, nullFlush(L2, t, call))

\* The inherited __del__: flush(), then self._isExiting = True
NullDel(t) ==
    /\ ~isExiting
    /\ NullCall(t, delExit(nullFlush(Cur, t, ncalls[t] + 1)))

\* The inherited tagscope, entered by a thread with no tag scope open.
NullTagscopeEnter(t, names) == scopes[t] = <<>> /\ TagscopeEnter(t, names)

\* NullEventLogger.__init__, whatever its arguments: flushSecs is the
\* flushSecs argument, which it ignores.
InitNull ==
    /\ flushSecs \in FlushSecsChoices
    /\ creationStep = <<>>
    /\ currentStep = 0
    /\ values = EmptyVals
    /\ metadata = {}
    /\ bytebuffer = <<>>
    /\ appended = <<>>
    /\ recorded = <<>>
    /\ file = <<>>
    /\ isExiting = FALSE
    /\ hasDaemon = FALSE
    /\ daemon = "none"
    /\ spawned = 0
    /\ lockOwner = NoThread
    /\ lockDepth = 0
    /\ pc = [t \in Producers |-> "idle"]
    /\ frame = [t \in Threads |-> NoFrame]
    /\ ncalls = [t \in Producers |-> 0]
    /\ tagScopePath = [t \in Producers |-> <<>>]
    /\ scopes = [t \in Producers |-> <<>>]
    /\ resolved = NotResolved
    /\ loggerStack = [t \in Producers |-> <<>>]
    /\ default = NoDefault
    /\ ioFailures = 0
    /\ pyMajor \in {2, 3}
    /\ callBudget = MaxNullCalls

NextNull ==
    \/ \E t \in Producers, tag \in InputTags, s \in Scalars, m \in BOOLEAN :
          NullLogScalar(t, tag, s, m)
    \/ \E t \in Producers : NullStep(t)
    \/ \E t \in Producers, k \in StepArgs : NullSetStep(t, k)
    \/ \E t \in Producers : NullFlush(t)
    \/ \E t \in Producers : NullLogMessage(t)
    \/ \E t \in Producers : NullLogSession(t)
    \/ \E t \in Producers : NullDel(t)
    \/ \E t \in Producers, names \in ScopeArgs : NullTagscopeEnter(t, names)
    \/ \E t \in Producers, names \in ScopeArgs : TagscopeReject(t, names)
    \/ \E t \in Producers : TagscopeExit(t)
    \/ \E t \in Producers : TagscopeBodyRaises(t)

SpecNull == InitNull /\ [][NextNull]_vars

(* C12: whatever calls are made on a NullEventLogger (log calls, step(),   *)
(* step(k), flush(), logMessage, logSession, tag scopes, __del__), no file *)
(* is written, no daemon thread is started, and its byte buffer, pending   *)
(* batch, set of seen tags and step counter are as __init__ left them.     *)
C12_NullUntouched ==
    /\ file = <<>>
    /\ spawned = 0 /\ ~hasDaemon /\ daemon = "none"
    /\ bytebuffer = <<>>
    /\ values = EmptyVals
    /\ metadata = {}
    /\ currentStep = 0

\* All the calls of the budget have been made, __del__ among them, on a
\* thread that has a tag scope open.
C12_Witness ==
    /\ TotalCalls = callBudget
    /\ isExiting
    /\ \E t \in Producers : ncalls[t] > 0 /\ tagScopePath[t] # <<>>

---------------------------------------------------------------------------
(* The default logger of a thread: with logger: body, and getDefault().    *)

\* Logger instances used as default loggers, and the NullEventLogger()
\* that getDefault() creates at each call made with an empty stack (the
\* instances so created differ in nothing but their identity).
Loggers == {"A", "B"}
NullRef == "NullEventLogger()"

\* Faulty variant: the bottom of the stack is returned.
getDefaultBottom(stack) == IF stack # <<>> THEN stack[1] ELSE NullRef

\* getDefault, on the calling thread's _loggerStack
getDefault(stack) == IF stack # <<>> THEN stack[Len(stack)] ELSE NullRef

\* __enter__: _loggerStack.append(self)
loggerEnter(stack, lg) == Append(stack, lg)

\* Faulty variant: the oldest entry is removed.
loggerExitFirst(stack) == Tail(stack)

\* __exit__: _loggerStack.pop()
loggerExit(stack) == SubSeq(stack, 1, Len(stack) - 1)

RegistryFrame ==
    /\ UNCHANGED <<currentStep, values, metadata, bytebuffer, file, isExiting,
                   hasDaemon, daemon, spawned, lockOwner, lockDepth, pc,
                   frame, ncalls, appended, recorded, ioFailures>>
    /\ UNCHANGED <<pyMajor, flushSecs, creationStep, callBudget>>
    /\ ScopeUnchanged

\* Thread t enters "with lg:".
Enter(t, lg) ==
    /\ Len(loggerStack[t]) < MaxStack
    /\ loggerStack' = [loggerStack EXCEPT ![t] = loggerEnter(@, lg)]
    /\ default' = NoDefault
    /\ RegistryFrame

\* Thread t leaves the innermost "with lg:" it is in.
Exit(t) ==
    /\ loggerStack[t] # <<>>
    /\ loggerStack' = [loggerStack EXCEPT ![t] = loggerExit(@)]
    /\ default' = NoDefault
    /\ RegistryFrame

\* Thread t calls EventLogger.getDefault().
GetDefault(t) ==
    /\ default' = [by |-> t, logger |-> getDefault(loggerStack[t])]
    /\ UNCHANGED loggerStack
    /\ RegistryFrame

InitRegistry == InitLogger /\ pyMajor = 2 /\ callBudget = 0

NextRegistry ==
    \/ \E t \in Producers, lg \in Loggers : Enter(t, lg)
    \/ \E t \in Producers : Exit(t)
    \/ \E t \in Producers : GetDefault(t)

SpecRegistry == InitRegistry /\ [][NextRegistry]_vars

\* getDefault() on thread t returns the logger that t entered last and has
\* not left, or a NullEventLogger when t is in no "with logger:".
C13_Current ==
    \A t \in Producers :
        GetDefault(t) =>
            /\ default'.by = t
            /\ default'.logger =
                  IF loggerStack[t] = <<>> THEN NullRef
                  ELSE loggerStack[t][Len(loggerStack[t])]

\* Entering or leaving on thread t changes nothing for another thread u.
C13_OtherThread ==
    \A t \in Producers, u \in Producers :
        (u # t /\ ((\E lg \in Loggers : Enter(t, lg)) \/ Exit(t))) =>
            /\ loggerStack'[u] = loggerStack[u]
            /\ getDefault(loggerStack'[u]) = getDefault(loggerStack[u])

\* Leaving right after entering gives back the stack, and so the default
\* logger, of before; leaving removes the logger entered last.
C13_Balanced ==
    \A t \in Producers :
        /\ \A lg \in Loggers :
              Enter(t, lg) =>
                 /\ loggerExit(loggerStack'[t]) = loggerStack[t]
                 /\ getDefault(loggerStack'[t]) = lg
        /\ Exit(t) =>
              loggerStack[t] = Append(loggerStack'[t], Last(loggerStack[t]))

(* C13: getDefault() on a thread returns the logger entered last and not   *)
(* yet left on that thread, or a NullEventLogger when the thread's stack   *)
(* is empty; entering and leaving on one thread never changes the stack or *)
(* the default logger of another; and leaving after entering restores the  *)
(* stack, and with it the default logger, of before the pair.              *)
C13_PerThreadDefault ==
    [][C13_Current /\ C13_OtherThread /\ C13_Balanced]_vars

\* One thread is inside "with A: with B:" and getDefault() on the other,
\* which entered nothing, has just returned a NullEventLogger.
C13_Witness ==
    /\ loggerStack["p1"] = <<"A", "B">>
    /\ loggerStack["p2"] = <<>>
    /\ default = [by |-> "p2", logger |-> NullRef]

---------------------------------------------------------------------------
(* Log calls with arguments of every sort: logScalar and logImage given an *)
(* empty tag, a tag that starts with the separator, an array with a wrong  *)
(* number of channels, an object that is no image.                         *)

EmptyTag == <<>>
TagArgs == InputTags \cup {EmptyTag, <<Sep, "x">>}

\* The image argument of logImage: an encoded image file with csc, h and w
\* given, numpy arrays shaped (c, h, w), and a list.
Images == {[kind |-> "bytes", c |-> 3], [kind |-> "ndarray", c |-> 1],
           [kind |-> "ndarray", c |-> 5], [kind |-> "list", c |-> 0]}

\* logImage reaches TfImage(...) with this image: otherwise it raises
\* ValueError.
imageOK(image) ==
    \/ image.kind = "bytes"
    \/ image.kind = "ndarray" /\ image.c \in 1..4

\* The value classes take a tag that "is non-empty": a value is built only
\* for a full tag that is not the empty string.
tfValueTagOK(full) == full # <<>>

\* The arguments get logScalar to the lock.
logScalarAccepts(path, tag) ==
    ~StartsWithSep(tag) /\ tfValueTagOK(getFullTag(path, tag))

\* The arguments get logImage to the lock.
logImageAccepts(path, tag, image) ==
    ~StartsWithSep(tag) /\ imageOK(image) /\ tfValueTagOK(getFullTag(path, tag))

\* A call that raises before it takes the lock.
callRaise(t) ==
    /\ CanCall(t)
    /\ Called(t)
    /\ UNCHANGED <<currentStep, values, metadata, bytebuffer, file, isExiting,
                   hasDaemon, daemon, spawned, appended, recorded>>
    /\ LockFree
    /\ UNCHANGED <<pc, frame, ioFailures>>
    /\ ScopeUnchanged /\ ConfigUnchanged

LogScalar(t, tag, scalar, hasMeta) ==
    /\ logScalarAccepts(tagScopePath[t], tag)
    /\ logScalar(t, tag, scalar, hasMeta)

LogScalarRaise(t, tag) ==
    /\ ~logScalarAccepts(tagScopePath[t], tag)
    /\ callRaise(t)

\* logImage(tag, image, ...): getFullTag, the image is converted, then under
\* the lock __maybeForceAppend(tag).recordValue(tag, val)
LogImage(t, tag, image, hasMeta) ==
    /\ logImageAccepts(tagScopePath[t], tag, image)
    /\ CanCall(t)
    /\ CanAcquire(t)
    /\ LET call == ncalls[t] + 1
           full == getFullTag(tagScopePath[t], tag)
           val == TfValue(full, image.c, hasMeta, t, call)
       IN Set(recordValue(maybeForceAppend(Cur, full, t, call), full, val))
    /\ Called(t)
    /\ LockFree
    /\ UNCHANGED <<pc, frame, ioFailures>>
    /\ ScopeUnchanged /\ ConfigUnchanged

LogImageRaise(t, tag, image) ==
    /\ ~logImageAccepts(tagScopePath[t], tag, image)
    /\ callRaise(t)

\* with logger.tagscope(NameA): entered by a thread with no tag scope open
InputTagscopeEnter(t) == scopes[t] = <<>> /\ TagscopeEnter(t, <<NameA>>)

InitInput == InitLogger /\ pyMajor = 2 /\ callBudget = MaxInputCalls

NextInput ==
    \/ \E t \in Producers, tag \in TagArgs, s \in Scalars, m \in BOOLEAN :
          LogScalar(t, tag, s, m)
    \/ \E t \in Producers, tag \in TagArgs : LogScalarRaise(t, tag)
    \/ \E t \in Producers, tag \in TagArgs, image \in Images, m \in BOOLEAN :
          LogImage(t, tag, image, m)
    \/ \E t \in Producers, tag \in TagArgs, image \in Images :
          LogImageRaise(t, tag, image)
    \/ \E t \in Producers : InputTagscopeEnter(t)
    \/ \E t \in Producers : TagscopeExit(t)
    \/ DaemonFlush
    \/ DaemonCheck

SpecInput == InitInput /\ [][NextInput]_vars

\* The arguments the calls above are given are malformed.
Malformed(tag, image) == tag = EmptyTag \/ StartsWithSep(tag) \/ ~imageOK(image)

(* C14 as claimed: a log call given an empty tag, a tag that starts with   *)
(* the separator, an array with a number of channels other than 1 to 4, or *)
(* an object that is no image, leaves the pending batch, the set of seen   *)
(* tags, the byte buffer, the step counter and the file as they were.      *)
C14_Claimed ==
    [][\A t \in Producers, tag \in TagArgs, image \in Images, m \in BOOLEAN :
          /\ (Malformed(tag, image) /\
                 (LogImage(t, tag, image, m) \/ LogImageRaise(t, tag, image)))
               => UNCHANGED <<values, metadata, bytebuffer, currentStep, file>>
          /\ ((tag = EmptyTag \/ StartsWithSep(tag)) /\
                 ((\E s \in Scalars : LogScalar(t, tag, s, m))
                     \/ LogScalarRaise(t, tag)))
               => UNCHANGED <<values, metadata, bytebuffer, currentStep, file>>
      ]_vars

---------------------------------------------------------------------------
\* A tag scope name as the documentation of tagscope wants it: not empty
\* and without the separator.
ValidName(name) == name # <<>> /\ \A i \in 1..Len(name) : name[i] # Sep

RECURSIVE OpenNames(_)
\* The names of the tag scopes in frames, outermost first.
OpenNames(frames) ==
    IF frames = <<>> THEN <<>>
    ELSE frames[1].names \o OpenNames(Tail(frames))

\* tagscope() raises on valid names.
C15_RejectsValid ==
    \E t \in Producers, names \in ScopeArgs :
        /\ TagscopeReject(t, names)
        /\ \A i \in 1..Len(names) : ValidName(names[i])

\* getFullTag(tag) returns something else than the names of the tag scopes
\* its thread is in, outermost first, and the tag, joined by the separator.
C15_ResolvesOtherwise ==
    \E t \in Producers, tag \in ResolveTags :
        /\ GetFullTag(t, tag)
        /\ ~StartsWithSep(tag)
        /\ \/ resolved'.tag #
                 Join(OpenNames(scopes[t]) \o <<CollapseSep(tag)>>)
           \/ tagScopePath' # tagScopePath

(* C15 as claimed: tagscope() given valid names enters the scope; inside   *)
(* tagscope(a, b) getFullTag("x") returns "a/b/x", after the scope is left *)
(* it returns "x" again, nested scopes add their names innermost last, and *)
(* getFullTag leaves the tag scope path alone.                             *)
C15_Claimed == [][~C15_RejectsValid /\ ~C15_ResolvesOtherwise]_vars

---------------------------------------------------------------------------
\* The values under tag that carry metadata, among the values of the
\* summary events appended so far and of the pending batch.
WithMetadata(tag) ==
    {<<j, appended[j].vals[tag]>> : j \in
        {n \in 1..Len(appended) :
            /\ tag \in DOMAIN appended[n].vals
            /\ appended[n].vals[tag].meta}}
    \cup (IF tag \in DOMAIN values /\ values[tag].meta
          THEN {<<0, values[tag]>>} ELSE {})

\* The seen tags are the tags of the values stored so far; of the values
\* stored under one tag only the first can carry metadata, and at most one
\* value per tag carries metadata in the events and the batch.
C16_Seen ==
    /\ metadata = {recorded[i].tag : i \in 1..Len(recorded)}
    /\ \A i, j \in 1..Len(recorded) :
          (i < j /\ recorded[i].tag = recorded[j].tag) => ~recorded[j].meta
    /\ \A tag \in metadata : Cardinality(WithMetadata(tag)) <= 1

\* A log call stores its value with the metadata it was given if the tag
\* was not seen before and without it if it was, and adds the tag to the
\* seen tags; no step ever removes a tag from them.
C16_Store ==
    /\ metadata \subseteq metadata'
    /\ \A t \in Producers, tag \in InputTags, s \in Scalars, m \in BOOLEAN :
          LET full == getFullTag(tagScopePath[t], tag)
          IN logScalar(t, tag, s, m) =>
                /\ Len(recorded') = Len(recorded) + 1
                /\ Last(recorded').tag = full
                /\ Last(recorded').meta = (m /\ full \notin metadata)
                /\ values'[full] = Last(recorded')
                /\ metadata' = metadata \cup {full}

(* C16: a value stored under a tag that is in the set of seen tags is      *)
(* stored without the metadata given with it, a value stored under a tag   *)
(* not yet seen keeps it, and storing adds the tag to the set; the set     *)
(* never loses a tag, whatever steps, commits and flushes happen, so at     *)
(* most one value per tag carries metadata over the life of the logger.    *)
C16_MetadataOnce == []C16_Seen /\ [][C16_Store]_vars

\* Two values stored under one tag at different steps, the first with
\* metadata and already in the file, the second without and pending.
C16_Witness ==
    \E i, j \in 1..Len(recorded) :
        /\ i < j
        /\ recorded[i].tag = recorded[j].tag
        /\ recorded[i].meta /\ ~recorded[j].meta
        /\ recorded[i].at # recorded[j].at
        /\ Pending(recorded[j])
        /\ \E n \in 1..Len(file) :
              /\ recorded[i].tag \in DOMAIN file[n].vals
              /\ file[n].vals[recorded[i].tag] = recorded[i]

---------------------------------------------------------------------------
\* The events of __init__: they are the first events ever appended, and
\* the whole byte buffer as long as no call has been made.
C17_Constructed(q) ==
    /\ Len(appended) >= Len(q)
    /\ SubSeq(appended, 1, Len(q)) = q
    /\ TotalCalls = 0 => (bytebuffer = q /\ file = <<>>)

(* C17 as claimed: __init__ leaves in the byte buffer the header event,    *)
(* followed by the restart session event exactly when the step given is    *)
(* not zero; with no step or with step 0 the buffer holds the header only. *)
C17_Claimed ==
    LET k == IF creationStep = <<>> THEN 0 ELSE creationStep[1]
    IN C17_Constructed(IF k # 0
                       THEN <<Event("header", k, EmptyVals, "init", 0),
                              Event("session", k, EmptyVals, "init", 0)>>
                       ELSE <<Event("header", 0, EmptyVals, "init", 0)>>)

(* C17: __init__ leaves in the byte buffer the header event, followed by   *)
(* the restart session event exactly when a step was given, step 0         *)
(* included; with no step given the buffer holds the header only.  Both    *)
(* events carry the starting step (0 when none was given).                 *)
C17_HeaderThenRestart ==
    LET k == IF creationStep = <<>> THEN 0 ELSE creationStep[1]
    IN C17_Constructed(IF creationStep # <<>>
                       THEN <<Event("header", k, EmptyVals, "init", 0),
                              Event("session", k, EmptyVals, "init", 0)>>
                       ELSE <<Event("header", 0, EmptyVals, "init", 0)>>)

\* A logger just created with step=0: header and restart event.
C17_Witness ==
    /\ TotalCalls = 0
    /\ creationStep = <<0>>
    /\ Len(bytebuffer) = 2
    /\ bytebuffer[2].type = "session"

---------------------------------------------------------------------------
(* recordValue, appendBuffer and appendSummary called by the producer      *)
(* threads themselves, next to the calls of Spec.                          *)

\* recordValue(tag, val): no "with self._lock" in it, so the call does not
\* wait for the lock, whoever holds it.
RecordValueDirect(t, tag, scalar, hasMeta) ==
    /\ CanCall(t)
    /\ LET val == TfValue(tag, scalar, hasMeta, t, ncalls[t] + 1)
       IN Set(recordValue(Cur, tag, val))
    /\ Called(t)
    /\ LockFree
    /\ UNCHANGED <<pc, frame, ioFailures>>
    /\ ScopeUnchanged /\ ConfigUnchanged

\* A call that takes the lock, leaves the logger as L and returns.
lockedCall(t, L) ==
    /\ CanCall(t)
    /\ CanAcquire(t)
    /\ Set(L)
    /\ Called(t)
    /\ LockFree
    /\ UNCHANGED <<pc, frame, ioFailures>>
    /\ ScopeUnchanged /\ ConfigUnchanged

\* appendBuffer(b), b the bytes of some event
AppendBufferDirect(t) ==
    lockedCall(t, appendBuffer(Cur, Event("raw", currentStep, EmptyVals,
                                          t, ncalls[t] + 1)))

\* appendSummary()
AppendSummaryDirect(t) == lockedCall(t, appendSummary(Cur, t, ncalls[t] + 1))

InitDirect == InitLogger /\ pyMajor = 2 /\ callBudget = MaxDirectCalls

NextDirect ==
    \/ Next
    \/ \E t \in Producers, tag \in InputTags, s \in Scalars, m \in BOOLEAN :
          RecordValueDirect(t, tag, s, m)
    \/ \E t \in Producers : AppendBufferDirect(t)
    \/ \E t \in Producers : AppendSummaryDirect(t)

SpecDirect == InitDirect /\ [][NextDirect]_vars

\* Thread t takes a step of a call, or the daemon thread a step of a round.
StepOf(t) ==
    IF t = DaemonId
    THEN daemon' # daemon /\ daemon # "none"
    ELSE ncalls'[t] # ncalls[t] \/ (pc[t] = "in_flush" /\ pc'[t] = "idle")

(* C18 as claimed: a thread that changes the byte buffer, the pending      *)
(* batch, the step counter or the set of seen tags holds the lock while it *)
(* does: no other thread holds the lock at that moment.                    *)
C18_Claimed ==
    [][\A t \in Threads :
          (StepOf(t) /\ <<bytebuffer, values, currentStep, metadata>>'
                           # <<bytebuffer, values, currentStep, metadata>>)
             => lockOwner \in {NoThread, t}]_vars

---------------------------------------------------------------------------
(* Tag scopes and getFullTag called on several loggers.  Scopes are        *)
(* entered on logger B and through the free function tagscope(), which     *)
(* calls tagscope() on the calling thread's default logger: logger A, or a *)
(* NullEventLogger when the thread has none.  getFullTag is called on all  *)
(* three.                                                                  *)

ScopeLoggers == Loggers \cup {NullRef}

\* Faulty variant: the tag scope path is kept per logger instance.  What a
\* logger then sees on thread t are the names of the scopes entered on it.
scopePathOwn(lg, t) ==
    OpenNames(SelectSeq(scopes[t], LAMBDA f : f.via = lg))

\* self._tagScopePath on thread t, self being lg: the list kept in the
\* thread-local of the class, the same for every instance.
scopePath(lg, t) == tagScopePath[t]

\* with lg.tagscope(names...): the generator up to its yield
tagscopeVia(lg, t, names, how) ==
    /\ pc[t] = "idle"
    /\ tagscopeValid(names)
    /\ Len(tagScopePath[t]) + Len(names) <= MaxPath
    /\ Len(scopes[t]) < MaxDepth
    /\ tagScopePath' = [tagScopePath EXCEPT ![t] = scopePath(lg, t) \o names]
    /\ scopes' = [scopes EXCEPT ![t] =
                     Append(@, [names |-> names, before |-> tagScopePath[t],
                                via |-> lg, how |-> how])]
    /\ resolved' = NotResolved
    /\ ScopeFrame

TagscopeVia(lg, t, names) == tagscopeVia(lg, t, names, "method")

\* with tagscope(names...): the free function
TagscopeFree(t, names) ==
    tagscopeVia(getDefault(loggerStack[t]), t, names, "function")

\* lg.getFullTag(tag) called by thread t
GetFullTagVia(lg, t, tag) ==
    /\ pc[t] = "idle"
    /\ resolved' =
          IF StartsWithSep(tag)
          THEN [by |-> t, via |-> lg, arg |-> tag,
                result |-> "AssertionError", tag |-> tag]
          ELSE [by |-> t, via |-> lg, arg |-> tag, result |-> "returned",
                tag |-> getFullTag(scopePath(lg, t), tag)]
    /\ UNCHANGED <<tagScopePath, scopes>>
    /\ ScopeFrame

\* with A: entered by a thread that has no default logger
SharedEnter(t) == loggerStack[t] = <<>> /\ Enter(t, "A")

\* Names for the scopes of this specification, tags to resolve in them.
SharedScopeArgs == {<<NameA>>}
SharedTags == {<<"x">>}

InitShared ==
    /\ InitLogger
    /\ flushSecs = "None"
    /\ creationStep = <<>>
    /\ pyMajor \in {2, 3}
    /\ callBudget = 0

NextShared ==
    \/ \E t \in Producers, names \in SharedScopeArgs :
          TagscopeVia("B", t, names)
    \/ \E t \in Producers, names \in SharedScopeArgs : TagscopeFree(t, names)
    \/ \E t \in Producers, names \in SharedScopeArgs : TagscopeReject(t, names)
    \/ \E t \in Producers : TagscopeExit(t)
    \/ \E t \in Producers : TagscopeBodyRaises(t)
    \/ \E lg \in ScopeLoggers, t \in Producers, tag \in SharedTags :
          GetFullTagVia(lg, t, tag)
    \/ \E t \in Producers : SharedEnter(t)
    \/ \E t \in Producers : Exit(t)

SpecShared == InitShared /\ [][NextShared]_vars

\* The names of every tag scope a thread is in, whatever logger it was
\* entered on, are in the thread's path where the scope put them; and a
\* full tag returned to a thread by whatever logger is the thread's path
\* and the tag given, joined.
C19_OnePathPerThread ==
    /\ \A t \in Producers : \A i \in 1..Len(scopes[t]) :
          LET f == scopes[t][i]
              n == Len(f.before) + Len(f.names)
          IN /\ Len(tagScopePath[t]) >= n
             /\ SubSeq(tagScopePath[t], 1, n) = f.before \o f.names
    /\ resolved.result = "returned" =>
          resolved.tag = Join(tagScopePath[resolved.by]
                                 \o <<CollapseSep(resolved.arg)>>)

\* A step that changes the path of a thread is a step of that thread's own
\* tag scopes: it changes no other thread's path.
C19_OtherThreads ==
    \A t \in Producers, u \in Producers :
        (u # t /\ tagScopePath'[t] # tagScopePath[t]) =>
            /\ scopes'[t] # scopes[t]
            /\ tagScopePath'[u] = tagScopePath[u]
            /\ scopes'[u] = scopes[u]

(* C19: a thread has one tag scope path, used by every logger instance,    *)
(* NullEventLogger and the free function tagscope() included: the names of *)
(* a scope entered on logger A prefix the full tags that any logger B      *)
(* returns to the same thread while the scope is open, and entering or     *)
(* leaving a scope on one thread never changes the path of another.        *)
C19_SharedScopes == []C19_OnePathPerThread /\ [][C19_OtherThreads]_vars

\* Inside a scope entered through the free function on thread p1, whose
\* default logger is A, getFullTag on logger B has returned a tag with the
\* scope's name in front; thread p2 has an empty path.
C19_Witness ==
    /\ scopes["p1"] # <<>>
    /\ scopes["p1"][1].via = "A" /\ scopes["p1"][1].how = "function"
    /\ scopes["p1"][1].names = <<NameA>>
    /\ resolved.result = "returned"
    /\ resolved.by = "p1" /\ resolved.via = "B"
    /\ resolved.tag = <<"a", Sep, "x">>
    /\ tagScopePath["p2"] = <<>>

---------------------------------------------------------------------------
\* appendBuffer has not been called: everything appended so far was put
\* into the byte buffer by __init__.
NothingAppended == Len(appended) = (IF creationStep = <<>> THEN 1 ELSE 2)

\* Before the first appendBuffer no daemon thread exists or has existed,
\* so whatever the file holds was written by a flush() of a producer.
C20_NoDaemonYet ==
    NothingAppended =>
        /\ spawned = 0 /\ ~hasDaemon /\ daemon = "none"
        /\ frame[DaemonId] = NoFrame
        /\ \A n \in 1..Len(file) : file[n].by = "init"

\* A log call under a tag that is not pending stores its value and calls
\* no appendBuffer; no step of the daemon thread is taken while nothing
\* was appended, and the file grows only in a step of a producer's call.
C20_StoreOnly ==
    /\ \A t \in Producers, tag \in InputTags, s \in Scalars, m \in BOOLEAN :
          (logScalar(t, tag, s, m)
              /\ getFullTag(tagScopePath[t], tag) \notin DOMAIN values) =>
                 /\ appended' = appended
                 /\ spawned' = spawned /\ daemon' = daemon
                 /\ file' = file
    /\ NothingAppended =>
          /\ ~DaemonFlush /\ ~DaemonCheck
          /\ file' # file => \E t \in Producers : ncalls'[t] # ncalls[t]

====
